---- MODULE Spec2Model ----
(***************************************************************************)
(* The JSON-file key-value store of to_do/dal/src/json_file.rs.            *)
(*                                                                         *)
(* The backing file is modelled by its existence and its content, a        *)
(* sequence of characters.  serde_json's pretty printer and its parser are *)
(* modelled character by character, so that what a write leaves in the     *)
(* file and what a later read makes of it are both computed.               *)
(*                                                                         *)
(* In Spec the calls are sequential and each one is a single step.  The   *)
(* only failure of the file system that is modelled is that of opening the *)
(* path (get_handle); it is a state of the environment, which changes      *)
(* between two calls, not within one.  read_to_string and write_all are    *)
(* taken to complete once the file is open.                                *)
(*                                                                         *)
(* In SpecConc two processes each make one save_one or delete_one call,    *)
(* and the opens, the read and the write of the two calls interleave.      *)
(*                                                                         *)
(* create of core/src/api/basic_actions/creates.rs is modelled on top of   *)
(* save_one.                                                               *)
(***************************************************************************)
EXTENDS Integers, Sequences, FiniteSets, TLC

(* ------------------------------------------------------------------ *)
(* Bounds                                                              *)
(* ------------------------------------------------------------------ *)

\* Number of calls (and changes of the environment) a behaviour makes.
MaxOps == 4

(* ------------------------------------------------------------------ *)
(* Values                                                              *)
(* ------------------------------------------------------------------ *)

QUOTE == "\""
NL == "\n"
SP == " "

\* Identifiers are strings; the callers here use the strings "1" and "2".
Ids == { <<"1">>, <<"2">> }

\* The item type T stored by the callers: the task status, serialized by
\* serde as the name of the variant.
PENDING == <<"P", "E", "N", "D", "I", "N", "G">>
DONE == <<"D", "O", "N", "E">>
TaskStatus == {PENDING, DONE}

\* HashMap<String, T>: a function from a finite set of identifiers to items.
EmptyMap == [k \in {} |-> DONE]
Maps == UNION { [D -> TaskStatus] : D \in SUBSET Ids }
Insert(tasks, id, task) == [k \in (DOMAIN tasks) \cup {id} |-> IF k = id THEN task ELSE tasks[k]]
\* Remove with the test inverted: keeps the entry of id and drops the others.
Remove_inverted(tasks, id) == [k \in (DOMAIN tasks) \cap {id} |-> tasks[k]]
Remove(tasks, id) == [k \in (DOMAIN tasks) \ {id} |-> tasks[k]]

\* A HashMap iterates in an order that depends on the hasher's random seed:
\* any order of the identifiers can be the one a serialization walks.
Orders == { o \in [1..Cardinality(Ids) -> Ids] : \A i, j \in DOMAIN o : o[i] = o[j] => i = j }

\* The messages of the Err(String) results, by their fixed prefix.
Ok == "Ok"
IOError == "Error opening file"
FormatError == "Error parsing JSON"
NotFoundError == "Task with id not found"

NoItem == <<>>

(* ------------------------------------------------------------------ *)
(* serde_json::to_string_pretty                                        *)
(* ------------------------------------------------------------------ *)

Quoted(str) == <<QUOTE>> \o str \o <<QUOTE>>

RECURSIVE PrettyEntries(_, _, _)
PrettyEntries(tasks, keys, first) ==
    IF keys = <<>> THEN <<>>
    ELSE (IF first THEN <<NL>> ELSE <<",", NL>>)
         \o <<SP, SP>> \o Quoted(Head(keys)) \o <<":", SP>> \o Quoted(tasks[Head(keys)])
         \o PrettyEntries(tasks, Tail(keys), FALSE)

KeysInOrder(tasks, order) == SelectSeq(order, LAMBDA k : k \in DOMAIN tasks)

to_string_pretty(tasks, order) ==
    IF DOMAIN tasks = {} THEN <<"{", "}">>
    ELSE <<"{">> \o PrettyEntries(tasks, KeysInOrder(tasks, order), TRUE) \o <<NL, "}">>

(* ------------------------------------------------------------------ *)
(* serde_json::from_str::<HashMap<String, T>>                          *)
(* ------------------------------------------------------------------ *)

Whitespace == {SP, NL}

RECURSIVE SkipWs(_, _)
SkipWs(s, i) == IF i <= Len(s) /\ s[i] \in Whitespace THEN SkipWs(s, i + 1) ELSE i

\* Position of the closing quote of a string whose first character is at i,
\* or 0 when the text ends first or a control character is met.
RECURSIVE ClosingQuote(_, _)
ClosingQuote(s, i) ==
    IF i > Len(s) THEN 0
    ELSE IF s[i] = QUOTE THEN i
    ELSE IF s[i] = NL THEN 0
    ELSE ClosingQuote(s, i + 1)

ParseFail == [ok |-> FALSE, val |-> <<>>, next |-> 0]

ParseStr(s, i) ==
    IF i > Len(s) \/ s[i] # QUOTE THEN ParseFail
    ELSE LET q == ClosingQuote(s, i + 1)
         IN IF q = 0 THEN ParseFail
            ELSE [ok |-> TRUE, val |-> SubSeq(s, i + 1, q - 1), next |-> q + 1]

\* The members of an object, from the first character of a key at i; acc
\* holds the members read so far (a repeated key keeps its last value).
RECURSIVE ParseMembers(_, _, _)
ParseMembers(s, i, acc) ==
    LET k == ParseStr(s, i)
        c == SkipWs(s, k.next)
        v == ParseStr(s, SkipWs(s, c + 1))
        e == SkipWs(s, v.next)
    IN IF ~k.ok THEN [ok |-> FALSE, map |-> EmptyMap, next |-> 0]
       ELSE IF c > Len(s) \/ s[c] # ":" THEN [ok |-> FALSE, map |-> EmptyMap, next |-> 0]
       ELSE IF ~v.ok \/ v.val \notin TaskStatus THEN [ok |-> FALSE, map |-> EmptyMap, next |-> 0]
       ELSE IF e > Len(s) THEN [ok |-> FALSE, map |-> EmptyMap, next |-> 0]
       ELSE IF s[e] = "}" THEN [ok |-> TRUE, map |-> Insert(acc, k.val, v.val), next |-> e + 1]
       ELSE IF s[e] = "," THEN ParseMembers(s, SkipWs(s, e + 1), Insert(acc, k.val, v.val))
       ELSE [ok |-> FALSE, map |-> EmptyMap, next |-> 0]

ParseObject(s) ==
    LET b == SkipWs(s, 1)
        m == SkipWs(s, b + 1)
    IN IF b > Len(s) \/ s[b] # "{" THEN [ok |-> FALSE, map |-> EmptyMap, next |-> 0]
       ELSE IF m > Len(s) THEN [ok |-> FALSE, map |-> EmptyMap, next |-> 0]
       ELSE IF s[m] = "}" THEN [ok |-> TRUE, map |-> EmptyMap, next |-> m + 1]
       ELSE ParseMembers(s, m, EmptyMap)

\* from_str parses one value and then requires the end of the text
\* (only whitespace may follow).
from_str(s) ==
    LET o == ParseObject(s)
    IN IF o.ok /\ SkipWs(s, o.next) > Len(s)
       THEN [ok |-> TRUE, map |-> o.map]
       ELSE [ok |-> FALSE, map |-> EmptyMap]

(* ------------------------------------------------------------------ *)
(* The backing file and the operations of the store                    *)
(* ------------------------------------------------------------------ *)

\* A file of the file system: whether it exists, and its content.
NoFile == [exists |-> FALSE, content |-> <<>>]

\* write_all on a file truncated first: the bytes are all the file holds.
write_all_truncated(content, bytes) == bytes
\* write_all on a handle opened in append mode: the bytes go to the end.
write_all_append(content, bytes) == content \o bytes
\* write_all on a handle opened without truncate or append: the bytes go
\* to offset 0 and replace as many bytes of the content; what lies beyond
\* them stays.
write_all(content, bytes) == bytes \o SubSeq(content, Len(bytes) + 1, Len(content))

\* get_handle without create(true): a missing file is an error.
get_handle_no_create(fs, acc) ==
    IF ~acc \/ ~fs.exists THEN [ok |-> FALSE, fs |-> fs]
    ELSE [ok |-> TRUE, fs |-> fs]

\* get_handle with truncate(true): every open empties the file.
get_handle_truncate(fs, acc) ==
    IF ~acc THEN [ok |-> FALSE, fs |-> fs]
    ELSE [ok |-> TRUE, fs |-> [exists |-> TRUE, content |-> <<>>]]

\* get_handle: OpenOptions read + write + create.  acc tells whether the
\* path can be opened; a missing file is created empty.
get_handle(fs, acc) ==
    IF ~acc THEN [ok |-> FALSE, fs |-> fs]
    ELSE [ok |-> TRUE,
          fs |-> IF fs.exists THEN fs ELSE [exists |-> TRUE, content |-> <<>>]]

\* get_all taking an empty file for an empty collection.
get_all_empty_default(fs, acc) ==
    LET h == get_handle(fs, acc)
        p == from_str(h.fs.content)
    IN IF ~h.ok THEN [res |-> IOError, map |-> EmptyMap, fs |-> h.fs]
       ELSE IF h.fs.content = <<>> THEN [res |-> Ok, map |-> EmptyMap, fs |-> h.fs]
       ELSE IF ~p.ok THEN [res |-> FormatError, map |-> EmptyMap, fs |-> h.fs]
       ELSE [res |-> Ok, map |-> p.map, fs |-> h.fs]

get_all(fs, acc) ==
    LET h == get_handle(fs, acc)
        p == from_str(h.fs.content)
    IN IF ~h.ok THEN [res |-> IOError, map |-> EmptyMap, fs |-> h.fs]
       ELSE IF ~p.ok THEN [res |-> FormatError, map |-> EmptyMap, fs |-> h.fs]
       ELSE [res |-> Ok, map |-> p.map, fs |-> h.fs]

save_all(fs, acc, tasks, order) ==
    LET h == get_handle(fs, acc)
        json == to_string_pretty(tasks, order)
    IN IF ~h.ok THEN [res |-> IOError, fs |-> h.fs]
       ELSE [res |-> Ok,
             fs |-> [exists |-> TRUE, content |-> write_all(h.fs.content, json)]]

\* get_one reporting a missing identifier as a content that does not parse.
get_one_missing_is_format_error(fs, acc, id) ==
    LET a == get_all(fs, acc)
    IN IF a.res # Ok THEN [res |-> a.res, item |-> NoItem, fs |-> a.fs]
       ELSE IF id \in DOMAIN a.map THEN [res |-> Ok, item |-> a.map[id], fs |-> a.fs]
       ELSE [res |-> FormatError, item |-> NoItem, fs |-> a.fs]

\* get_one reporting every failure of the load as a missing identifier.
get_one_masks_load_error(fs, acc, id) ==
    LET a == get_all(fs, acc)
    IN IF a.res = Ok /\ id \in DOMAIN a.map
       THEN [res |-> Ok, item |-> a.map[id], fs |-> a.fs]
       ELSE [res |-> NotFoundError, item |-> NoItem, fs |-> a.fs]

get_one(fs, acc, id) ==
    LET a == get_all(fs, acc)
    IN IF a.res # Ok THEN [res |-> a.res, item |-> NoItem, fs |-> a.fs]
       ELSE IF id \in DOMAIN a.map THEN [res |-> Ok, item |-> a.map[id], fs |-> a.fs]
       ELSE [res |-> NotFoundError, item |-> NoItem, fs |-> a.fs]

\* save_one propagating the failure of the load (get_all()? in place of
\* unwrap_or_else).
save_one_propagates(fs, acc, id, task, order) ==
    LET a == get_all(fs, acc)
    IN IF a.res # Ok THEN [res |-> a.res, fs |-> a.fs]
       ELSE save_all(a.fs, acc, Insert(a.map, id, task), order)

save_one(fs, acc, id, task, order) ==
    LET a == get_all(fs, acc)
        tasks == IF a.res = Ok THEN a.map ELSE EmptyMap
    IN save_all(a.fs, acc, Insert(tasks, id, task), order)

delete_one(fs, acc, id, order) ==
    LET a == get_all(fs, acc)
        tasks == IF a.res = Ok THEN a.map ELSE EmptyMap
    IN save_all(a.fs, acc, Remove(tasks, id), order)

(* ------------------------------------------------------------------ *)
(* The item factory of core/src/api/basic_actions/creates.rs           *)
(* ------------------------------------------------------------------ *)

\* The items Pending::new(title) and Done::new(title) construct: the title
\* and the status of the task.
Pending_new(title) == <<title, PENDING>>
Done_new(title) == <<title, DONE>>
title_of(item) == item[1]

\* enum ItemTypes { Done(Done), Pending(Pending) }, and no value at all.
ItemTypes_Pending(item) == [variant |-> "Pending", item |-> item]
ItemTypes_Done(item) == [variant |-> "Done", item |-> item]
NoItemTypes == [variant |-> "none", item |-> <<>>]

\* impl fmt::Display for ItemTypes: the title of the item of either variant.
fmt(it) ==
    IF it.variant = "Done" THEN title_of(it.item)
    ELSE title_of(it.item)

\* The match of create with its arms exchanged.
match_status_exchanged(s, title, status) ==
    IF s.res # Ok THEN [res |-> s.res, made |-> NoItemTypes, fs |-> s.fs]
    ELSE IF status = PENDING
         THEN [res |-> Ok, made |-> ItemTypes_Done(Done_new(title)), fs |-> s.fs]
         ELSE [res |-> Ok, made |-> ItemTypes_Pending(Pending_new(title)), fs |-> s.fs]

\* create after its save_one returned s: the error of s (the ? operator),
\* else the variant the status selects.
match_status(s, title, status) ==
    IF s.res # Ok THEN [res |-> s.res, made |-> NoItemTypes, fs |-> s.fs]
    ELSE IF status = PENDING
         THEN [res |-> Ok, made |-> ItemTypes_Pending(Pending_new(title)), fs |-> s.fs]
         ELSE [res |-> Ok, made |-> ItemTypes_Done(Done_new(title)), fs |-> s.fs]

\* create: save_one(title, status)?, then the match on the status.
create(fs, acc, title, status, order) ==
    match_status(save_one(fs, acc, title, status, order), title, status)

(* ------------------------------------------------------------------ *)
(* State                                                               *)
(* ------------------------------------------------------------------ *)

VARIABLES
    file,        \* the backing file
    accessible,  \* whether the path can be opened (permissions, directory)
    last,        \* the last call: operation, arguments, result, file before it
    made,        \* what the last call returned, when it was a create
    prev,        \* the call before the last one, in brief
    ops,         \* number of steps taken
    saved,       \* identifiers stored by a successful save so far
    expected,    \* the map the save_one/delete_one calls so far add up to
    itemCallsOnly,  \* only save_one and delete_one have been called so far
    pc,          \* concurrent callers: where each one is in its call
    loc,         \* concurrent callers: the call and the local HashMap of each
    written      \* concurrent callers: the mapping of the last write_all

vars == <<file, accessible, last, made, prev, ops, saved, expected, itemCallsOnly,
          pc, loc, written>>

NoId == <<>>

Call(op, id, task, tasks, res, map, item, pre) ==
    [op |-> op, id |-> id, task |-> task, tasks |-> tasks,
     res |-> res, map |-> map, item |-> item, pre |-> pre]

NoCall == Call("none", NoId, NoItem, EmptyMap, Ok, EmptyMap, NoItem, NoFile)

\* Two processes (or threads) that call save_one / delete_one on the same file.
Procs == {"p1", "p2"}
NoLocal == [op |-> "none", id |-> NoId, task |-> NoItem, tasks |-> EmptyMap]

\* What is kept of a call once another one has followed it: the call, its
\* result, and what the file held before it.
Brief(c) ==
    [op |-> c.op, id |-> c.id, task |-> c.task, res |-> c.res, before |-> from_str(c.pre.content)]

\* The bookkeeping every step does.
Step(c) ==
    /\ ops < MaxOps
    /\ ops' = ops + 1
    /\ last' = c
    /\ prev' = Brief(last)
    /\ UNCHANGED <<pc, loc, written>>

Init ==
    /\ file = NoFile
    /\ accessible = TRUE
    /\ last = NoCall
    /\ made = NoItemTypes
    /\ prev = Brief(NoCall)
    /\ ops = 0
    /\ saved = {}
    /\ expected = EmptyMap
    /\ itemCallsOnly = TRUE
    /\ pc = [p \in Procs |-> "idle"]
    /\ loc = [p \in Procs |-> NoLocal]
    /\ written = EmptyMap

(* ------------------------------------------------------------------ *)
(* Actions: one per public function, and the environment               *)
(* ------------------------------------------------------------------ *)

GetAll ==
    LET r == get_all(file, accessible)
    IN /\ file' = r.fs
       /\ Step(Call("get_all", NoId, NoItem, EmptyMap, r.res, r.map, NoItem, file))
       /\ made' = NoItemTypes
       /\ expected' = EmptyMap
       /\ itemCallsOnly' = FALSE
       /\ UNCHANGED <<accessible, saved>>

GetOne ==
    \E id \in Ids :
        LET r == get_one(file, accessible, id)
        IN /\ file' = r.fs
           /\ Step(Call("get_one", id, NoItem, EmptyMap, r.res, EmptyMap, r.item, file))
           /\ made' = NoItemTypes
           /\ expected' = EmptyMap
           /\ itemCallsOnly' = FALSE
           /\ UNCHANGED <<accessible, saved>>

SaveAll ==
    \E tasks \in Maps :
        \E r \in { save_all(file, accessible, tasks, order) : order \in Orders } :
           /\ file' = r.fs
           /\ Step(Call("save_all", NoId, NoItem, tasks, r.res, EmptyMap, NoItem, file))
           /\ made' = NoItemTypes
           /\ saved' = IF r.res = Ok THEN saved \cup DOMAIN tasks ELSE saved
           /\ expected' = EmptyMap
           /\ itemCallsOnly' = FALSE
           /\ UNCHANGED accessible

SaveOne ==
    \E id \in Ids, task \in TaskStatus :
        \E r \in { save_one(file, accessible, id, task, order) : order \in Orders } :
           /\ file' = r.fs
           /\ Step(Call("save_one", id, task, EmptyMap, r.res, EmptyMap, NoItem, file))
           /\ made' = NoItemTypes
           /\ saved' = IF r.res = Ok THEN saved \cup {id} ELSE saved
           /\ expected' = IF itemCallsOnly /\ r.res = Ok THEN Insert(expected, id, task)
                          ELSE expected
           /\ UNCHANGED <<accessible, itemCallsOnly>>

DeleteOne ==
    \E id \in Ids :
        \E r \in { delete_one(file, accessible, id, order) : order \in Orders } :
           /\ file' = r.fs
           /\ Step(Call("delete_one", id, NoItem, EmptyMap, r.res, EmptyMap, NoItem, file))
           /\ made' = NoItemTypes
           /\ expected' = IF itemCallsOnly /\ r.res = Ok THEN Remove(expected, id)
                          ELSE expected
           /\ UNCHANGED <<accessible, saved, itemCallsOnly>>

Create ==
    \E title \in Ids, status \in TaskStatus :
        \E r \in { create(file, accessible, title, status, order) : order \in Orders } :
           /\ file' = r.fs
           /\ Step(Call("create", title, status, EmptyMap, r.res, EmptyMap, NoItem, file))
           /\ made' = r.made
           /\ saved' = IF r.res = Ok THEN saved \cup {title} ELSE saved
           /\ expected' = EmptyMap
           /\ itemCallsOnly' = FALSE
           /\ UNCHANGED accessible

\* The environment: the path becomes inaccessible, or accessible again,
\* between two calls.
SetAccess ==
    /\ accessible' = ~accessible
    /\ Step(Call("set_access", NoId, NoItem, EmptyMap, Ok, EmptyMap, NoItem, file))
    /\ made' = NoItemTypes
    /\ UNCHANGED <<file, saved, expected, itemCallsOnly>>

Next ==
    \/ GetAll
    \/ GetOne
    \/ SaveAll
    \/ SaveOne
    \/ DeleteOne
    \/ Create
    \/ SetAccess

Spec == Init /\ [][Next]_vars

(* ------------------------------------------------------------------ *)
(* Concurrent callers: save_one and delete_one step by step            *)
(* ------------------------------------------------------------------ *)

\* The file a call can find: none, or one that holds a mapping.
ValidFiles ==
    {NoFile} \cup { [exists |-> TRUE, content |-> to_string_pretty(tasks, order)] :
                       tasks \in Maps, order \in Orders }

InitConc ==
    /\ file \in ValidFiles
    /\ accessible = TRUE
    /\ last = NoCall
    /\ made = NoItemTypes
    /\ prev = Brief(NoCall)
    /\ ops = 0
    /\ saved = {}
    /\ expected = EmptyMap
    /\ itemCallsOnly = TRUE
    /\ pc = [p \in Procs |-> "idle"]
    /\ loc = [p \in Procs |-> NoLocal]
    /\ written = EmptyMap

Sequential == <<accessible, last, made, prev, ops, saved, expected, itemCallsOnly>>

\* A process calls save_one(id, task).
BeginSaveOne(p) ==
    /\ pc[p] = "idle"
    /\ \E id \in Ids, task \in TaskStatus :
          loc' = [loc EXCEPT ![p] = [op |-> "save_one", id |-> id, task |-> task,
                                     tasks |-> EmptyMap]]
    /\ pc' = [pc EXCEPT ![p] = "get_all_open"]
    /\ UNCHANGED <<file, written, Sequential>>

\* A process calls delete_one(id).
BeginDeleteOne(p) ==
    /\ pc[p] = "idle"
    /\ \E id \in Ids :
          loc' = [loc EXCEPT ![p] = [op |-> "delete_one", id |-> id, task |-> NoItem,
                                     tasks |-> EmptyMap]]
    /\ pc' = [pc EXCEPT ![p] = "get_all_open"]
    /\ UNCHANGED <<file, written, Sequential>>

\* get_all: get_handle()
LoadOpen(p) ==
    /\ pc[p] = "get_all_open"
    /\ file' = get_handle(file, accessible).fs
    /\ pc' = [pc EXCEPT ![p] = "get_all_read"]
    /\ UNCHANGED <<loc, written, Sequential>>

\* get_all: read_to_string and from_str; then unwrap_or_else, and insert or
\* remove on the local HashMap.
LoadRead(p) ==
    /\ pc[p] = "get_all_read"
    /\ LET parsed == from_str(file.content)
           tasks == IF parsed.ok THEN parsed.map ELSE EmptyMap
       IN loc' = [loc EXCEPT ![p].tasks =
                     IF loc[p].op = "save_one" THEN Insert(tasks, loc[p].id, loc[p].task)
                     ELSE Remove(tasks, loc[p].id)]
    /\ pc' = [pc EXCEPT ![p] = "save_all_open"]
    /\ UNCHANGED <<file, written, Sequential>>

\* save_all: get_handle()
SaveOpen(p) ==
    /\ pc[p] = "save_all_open"
    /\ file' = get_handle(file, accessible).fs
    /\ pc' = [pc EXCEPT ![p] = "save_all_write"]
    /\ UNCHANGED <<loc, written, Sequential>>

\* save_all: to_string_pretty and write_all
SaveWrite(p) ==
    /\ pc[p] = "save_all_write"
    /\ \E json \in { to_string_pretty(loc[p].tasks, order) : order \in Orders } :
          file' = [exists |-> TRUE, content |-> write_all(file.content, json)]
    /\ written' = loc[p].tasks
    /\ pc' = [pc EXCEPT ![p] = "done"]
    /\ UNCHANGED <<loc, Sequential>>

NextConc ==
    \E p \in Procs :
        \/ BeginSaveOne(p)
        \/ BeginDeleteOne(p)
        \/ LoadOpen(p)
        \/ LoadRead(p)
        \/ SaveOpen(p)
        \/ SaveWrite(p)

SpecConc == InitConc /\ [][NextConc]_vars

(* ------------------------------------------------------------------ *)
(* Properties                                                          *)
(* ------------------------------------------------------------------ *)

\* What load-all returns when it is called next, and what it would have
\* returned right before the last call.
After == get_all(file, accessible)
Before == get_all(last.pre, accessible)

Single(id, task) == Insert(EmptyMap, id, task)

\* C1: a successful save-all(M), whatever the file held before, leaves the
\* file such that the next load-all succeeds and returns exactly M.
C1_RoundTrip ==
    (last.op = "save_all" /\ last.res = Ok)
        => (After.res = Ok /\ After.map = last.tasks)

\* C2: starting with no file, after successful save-one and delete-one
\* calls, load-all returns exactly the map the same inserts and removals
\* build from the empty map, and get-one returns its value for each of its
\* identifiers.
C2_ItemCallsBuildTheMap ==
    (itemCallsOnly /\ last.op \in {"save_one", "delete_one"} /\ last.res = Ok)
        => /\ After.res = Ok
           /\ After.map = expected
           /\ \A id \in DOMAIN expected :
                 LET g == get_one(file, accessible, id)
                 IN g.res = Ok /\ g.item = expected[id]

\* C3: save-one(a, X) followed by save-one(a, Y) makes get-one(a) succeed
\* with Y, and the number of entries is the one before the first call when a
\* was present then.
C3_Overwrite ==
    (/\ last.op = "save_one" /\ last.res = Ok
     /\ prev.op = "save_one" /\ prev.res = Ok
     /\ last.id = prev.id)
        => LET g == get_one(file, accessible, last.id)
           IN /\ g.res = Ok
              /\ g.item = last.task
              /\ (prev.before.ok /\ last.id \in DOMAIN prev.before.map)
                    => Cardinality(DOMAIN After.map) = Cardinality(DOMAIN prev.before.map)

\* C4: with no backing file (and a path that can be opened), save-one(x, V)
\* succeeds and the file then deserializes to the map whose sole entry is
\* x -> V.
C4_FreshFileBootstrap ==
    (last.op = "save_one" /\ ~last.pre.exists /\ accessible)
        => /\ last.res = Ok
           /\ file.exists
           /\ After.res = Ok
           /\ After.map = Single(last.id, last.task)

C4_Witness ==
    /\ last.op = "save_one" /\ ~last.pre.exists
    /\ last.res = Ok
    /\ After.map = Single(last.id, last.task)

\* C5: save-one(id, X) called twice in a row leaves load-all returning what
\* it returned after the first of the two calls (the same mapping, or the
\* same failure).
C5_UpsertIdempotent ==
    (/\ last.op = "save_one" /\ prev.op = "save_one"
     /\ last.id = prev.id /\ last.task = prev.task)
        => (After.res = Before.res /\ After.map = Before.map)

C5_Witness ==
    /\ last.op = "save_one" /\ prev.op = "save_one"
    /\ last.id = prev.id /\ last.task = prev.task
    /\ last.res = Ok /\ prev.res = Ok
    /\ After.res = Ok
    /\ Cardinality(DOMAIN After.map) = 2
    /\ After.map[last.id] = last.task

\* C6 as stated: get-one(id) on an identifier never saved fails with
\* NotFoundError, in every state, also when nothing was saved at all.
C6_NeverSavedIsNotFound ==
    (last.op = "get_one" /\ last.id \notin saved) => last.res = NotFoundError

\* C6 amended: get-one(id) on an identifier never saved returns no value; it
\* fails with NotFoundError when the load succeeds, and with the load's own
\* error when the load fails.
C6_NeverSavedIsAFailure ==
    (last.op = "get_one" /\ last.id \notin saved)
        => /\ last.res # Ok
           /\ last.item = NoItem
           /\ last.res = (IF Before.res = Ok THEN NotFoundError ELSE Before.res)

C6_Witness ==
    /\ last.op = "get_one" /\ last.id \notin saved
    /\ saved # {}
    /\ Before.res = Ok
    /\ last.res = NotFoundError

\* C7: delete-one(id), when load-all returns a mapping without id, succeeds
\* and load-all returns the same mapping afterwards.
C7_DeleteAbsentIsNoOp ==
    (/\ last.op = "delete_one" /\ accessible
     /\ Before.res = Ok /\ last.id \notin DOMAIN Before.map)
        => /\ last.res = Ok
           /\ After.res = Ok
           /\ After.map = Before.map

C7_Witness ==
    /\ last.op = "delete_one" /\ accessible
    /\ Before.res = Ok /\ last.id \notin DOMAIN Before.map
    /\ Before.map # EmptyMap
    /\ last.res = Ok
    /\ After.map = Before.map

\* C8: when the file's content does not deserialize, load-all and get-one
\* fail with FormatError, save-one(id, item) succeeds and load-all then
\* returns exactly {id: item}, delete-one(id) succeeds and load-all then
\* returns the empty mapping; save-one and delete-one fail only when
\* save-all fails.
C8_ReadsFailWritesHeal ==
    /\ (accessible /\ ~from_str(last.pre.content).ok)
          => /\ last.op \in {"get_all", "get_one"} => last.res = FormatError
             /\ last.op = "save_one"
                   => (last.res = Ok /\ After.res = Ok
                       /\ After.map = Single(last.id, last.task))
             /\ last.op = "delete_one"
                   => (last.res = Ok /\ After.res = Ok /\ After.map = EmptyMap)
    /\ (last.op \in {"save_one", "delete_one"} /\ last.res # Ok)
          => \A tasks \in Maps, order \in Orders :
                save_all(last.pre, accessible, tasks, order).res # Ok

\* C9: load-all on an empty file, or on a missing one, which it creates
\* empty, fails with FormatError; it never returns a mapping.
C9_EmptyFileIsFormatError ==
    (last.op = "get_all" /\ last.pre.content = <<>>)
        => /\ last.res # Ok
           /\ accessible => (last.res = FormatError /\ file = [exists |-> TRUE, content |-> <<>>])

C9_Witness ==
    /\ last.op = "get_all" /\ ~last.pre.exists
    /\ last.res = FormatError
    /\ file.exists

StoreOps == {"get_all", "save_all", "get_one", "save_one", "delete_one"}

\* C10: a store operation that fails leaves the file as it was (a file never
\* created stays so, the content is the same), and one that returns success
\* from a write leaves the file deserializable.
C10_AllOrNothing ==
    /\ (last.op \in StoreOps /\ last.res # Ok) => file = last.pre
    /\ (last.op \in {"save_all", "save_one", "delete_one"} /\ last.res = Ok)
          => (file.exists /\ from_str(file.content).ok)

\* C11: after a successful create(title, status), get-one(title) succeeds
\* and returns the item create returned: the value stored under the title
\* is that item.
C11_CreateStoresTheItem ==
    (last.op = "create" /\ last.res = Ok)
        => LET g == get_one(file, accessible, last.id)
           IN g.res = Ok /\ g.item = made.item

\* C12: create fails exactly when its save-one fails, with the same error
\* and no item; when save-one succeeds it returns the Pending variant for
\* the pending status and the Done variant for the done status, and the
\* returned variant displays as the title alone.
C12_CreateFollowsSaveOne ==
    last.op = "create"
        => \A order \in Orders :
              LET s == save_one(last.pre, accessible, last.id, last.task, order)
              IN /\ last.res = s.res
                 /\ s.res # Ok => made = NoItemTypes
                 /\ s.res = Ok
                       => /\ made.variant = (IF last.task = PENDING THEN "Pending" ELSE "Done")
                          /\ title_of(made.item) = last.id
                          /\ fmt(made) = last.id

C12_Witness ==
    /\ last.op = "create"
    /\ last.res = IOError
    /\ made = NoItemTypes
    /\ last.id \in saved

\* C14: get-one(id) is load-all followed by a lookup: it succeeds exactly
\* when load-all succeeds with a mapping that contains id, and then returns
\* the value at id; it fails with load-all's error when load-all fails, and
\* with NotFoundError when load-all succeeds without id.
C14_GetOneIsLoadThenLookup ==
    last.op = "get_one"
        => /\ (last.res = Ok) <=> (Before.res = Ok /\ last.id \in DOMAIN Before.map)
           /\ last.res = Ok => last.item = Before.map[last.id]
           /\ Before.res # Ok => last.res = Before.res
           /\ (Before.res = Ok /\ last.id \notin DOMAIN Before.map)
                 => last.res = NotFoundError
           /\ file = Before.fs

C14_Witness ==
    /\ last.op = "get_one"
    /\ last.res = Ok
    /\ last.item = PENDING
    /\ Cardinality(DOMAIN Before.map) = 2

Calls == StoreOps \cup {"create"}

\* C15: with a path that can be opened, the file exists once a store
\* operation of any kind has completed, also a read that fails; and a file
\* that exists keeps existing.
C15_FileLifecycle ==
    /\ [](((last.op \in Calls) /\ accessible) => file.exists)
    /\ [][file.exists => file'.exists]_vars

C15_Witness ==
    /\ last.op = "get_one"
    /\ ~last.pre.exists
    /\ last.res = FormatError
    /\ file = [exists |-> TRUE, content |-> <<>>]

\* C16: when the file holds a valid mapping M, a successful save-one(id, _)
\* or delete-one(id) leaves every entry of another key in place: get-one(k)
\* then returns M[k] for every k of M other than id.
C16_OtherEntriesKept ==
    (/\ last.op \in {"save_one", "delete_one"} /\ last.res = Ok
     /\ Before.res = Ok)
        => \A k \in (DOMAIN Before.map) \ {last.id} :
              LET g == get_one(file, accessible, k)
              IN g.res = Ok /\ g.item = Before.map[k]

\* The mapping the last call handed to save_all, when it was a write.
Written ==
    LET tasks == IF Before.res = Ok THEN Before.map ELSE EmptyMap
    IN IF last.op = "save_all" THEN last.tasks
       ELSE IF last.op = "delete_one" THEN Remove(tasks, last.id)
       ELSE Insert(tasks, last.id, last.task)

WrittenLen == Len(to_string_pretty(Written, CHOOSE o \in Orders : TRUE))

Max(a, b) == IF a >= b THEN a ELSE b

C18_ReadsLeaveTheFile ==
    /\ (last.op \in {"get_all", "get_one"} /\ last.pre.exists) => file = last.pre
    /\ (last.op \in {"get_all", "get_one"} /\ prev.op = last.op /\ prev.id = last.id)
          => last.res = prev.res
    /\ last.op = "get_all" => (After.res = last.res /\ After.map = last.map)
    /\ last.op = "get_one"
          => LET g == get_one(file, accessible, last.id)
             IN g.res = last.res /\ g.item = last.item

C18_Witness ==
    /\ last.op = "get_all" /\ prev.op = "get_all"
    /\ last.res = Ok
    /\ last.map # EmptyMap
    /\ file = last.pre

\* C13: when two processes have run save-one / delete-one on the same
\* file, their steps interleaved in any order, the file deserializes to
\* exactly the mapping of the save-all that wrote last; it is never a
\* mixture of the two writes.
C13_LastWriterWins ==
    (\A p \in Procs : pc[p] = "done")
        => LET stored == from_str(file.content)
           IN stored.ok /\ stored.map = written

====
